---------------------------- MODULE Spec2Model ----------------------------
(***************************************************************************)
(* Seam carving (seamCarving.cpp): the entry point main, the raster loader *)
(* initImageMap, the energy map initEnergyMap, the cumulative energy map   *)
(* initCumulativeEnergyMap and the seam removal seamCarver.                *)
(*                                                                         *)
(* A grid (vector<vector<int>>) is a sequence of rows, a row a sequence of *)
(* integers.  The source indexes from 0; At and Elem translate a 0-based   *)
(* index of the source into the 1-based index of a TLA+ sequence, so that  *)
(* every bounds test below reads as it does in the source.                 *)
(***************************************************************************)
EXTENDS Integers, Sequences, FiniteSets, TLC

VARIABLES
    pc,         \* position of main: start, validated, loaded, energy,
                \* cumulative, carved, done, exit
    argc,       \* number of command-line arguments, program name included
    vSeams,     \* argv[2]: the number of vertical seams requested
    hSeams,     \* argv[3]: the number of horizontal seams requested
    file,       \* the pgm file argv[1] names
    I,          \* main's I (the image map)
    E,          \* main's E (the energy map)
    CE,         \* main's CE (the cumulative energy map)
    seam_column_indices, \* seamCarver's array, as its last call left it
    seam_accesses, \* the reads of the array by the last call of seamCarver,
                \* one per iteration of its for loop, in order
    cout,       \* the maps displayMap has written to cout so far
    cerr,       \* the kinds of error written to cerr so far
    exitCode,   \* -1 while running, then the exit status of the process
    carves      \* number of calls of seamCarver so far

vars == <<pc, argc, vSeams, hSeams, file, I, E, CE, seam_column_indices,
          seam_accesses, cout, cerr, exitCode, carves>>

-----------------------------------------------------------------------------
(* Bounds *)

MaxRows == 3
MaxCols == 3
MaxCells == 9
MaxVal == 1
MaxEnergy == 1
MaxFileRows == 2
MaxFileCols == 2
MaxFileCells == 4
MaxArgc == 5
MaxSeams == 1

-----------------------------------------------------------------------------
(* Vectors *)

Elem(row, j) == row[j + 1]
At(map, i, j) == map[i + 1][j + 1]

abs(x) == IF x < 0 THEN -x ELSE x

\* faulty variant of min_scan: the last smallest element wins
RECURSIVE min_scan_last(_, _, _)
min_scan_last(s, smallest, k) ==
    IF k >= Len(s) THEN smallest
    ELSE min_scan_last(s, IF Elem(s, k) <= Elem(s, smallest) THEN k ELSE smallest,
                       k + 1)

\* std::min_element: the position of the first smallest element, the end
\* position (the size) for an empty range
RECURSIVE min_scan(_, _, _)
min_scan(s, smallest, k) ==
    IF k >= Len(s) THEN smallest
    ELSE min_scan(s, IF Elem(s, k) < Elem(s, smallest) THEN k ELSE smallest, k + 1)

min_element(s) == IF Len(s) = 0 THEN 0 ELSE min_scan(s, 0, 1)

\* std::find: the position of the first element equal to v, the end position
\* (the size) when there is none
RECURSIVE find(_, _, _)
find(s, v, k) ==
    IF k >= Len(s) THEN Len(s)
    ELSE IF Elem(s, k) = v THEN k
    ELSE find(s, v, k + 1)

pop_back(row) == SubSeq(row, 1, Len(row) - 1)

swap(row, a, b) ==
    [row EXCEPT ![a + 1] = Elem(row, b), ![b + 1] = Elem(row, a)]

-----------------------------------------------------------------------------
(* initImageMap *)

\* the pixel the k-th extraction (k from 0) reads from the pixel data
pixelAt(f, k) == f.pixels[k + 1]

\* faulty variant of pixelOutOfRange: only the upper bound is tested
pixelAboveMaximum(f) ==
    \E k \in 0 .. (f.rows * f.columns - 1) : pixelAt(f, k) > f.maxPixelValue

\* some pixel read by the nested loops fails the range test of line 179
pixelOutOfRange(f) ==
    \E k \in 0 .. (f.rows * f.columns - 1) :
        pixelAt(f, k) > f.maxPixelValue \/ pixelAt(f, k) < 0

\* faulty variant of initImageMap: the extractions fill the columns first
initImageMapColumnMajor(f) ==
    [r \in 1 .. f.rows |->
        [c \in 1 .. f.columns |-> pixelAt(f, (c - 1) * f.rows + (r - 1))]]

\* the 2D vector the nested loops build: row i holds extractions
\* i*columns .. i*columns + columns - 1
initImageMap(f) ==
    [r \in 1 .. f.rows |->
        [c \in 1 .. f.columns |-> pixelAt(f, (r - 1) * f.columns + (c - 1))]]

-----------------------------------------------------------------------------
(* initEnergyMap *)

\* faulty variant of energyAt: the distance to the right neighbour is signed
energyAtMissingAbs(imageMap, i, j) ==
    LET left  == IF (j - 1) >= 0 THEN At(imageMap, i, j - 1) ELSE At(imageMap, i, j)
        right == IF (j + 1) < Len(imageMap[i + 1])
                 THEN At(imageMap, i, j + 1) ELSE At(imageMap, i, j)
        changeX == abs(At(imageMap, i, j) - left) + (At(imageMap, i, j) - right)
        up    == IF (i - 1) >= 0 THEN At(imageMap, i - 1, j) ELSE At(imageMap, i, j)
        down  == IF (i + 1) < Len(imageMap)
                 THEN At(imageMap, i + 1, j) ELSE At(imageMap, i, j)
        changeY == abs(At(imageMap, i, j) - up) + abs(At(imageMap, i, j) - down)
    IN  changeX + changeY

\* the energy pushed for pixel (i, j)
energyAt(imageMap, i, j) ==
    LET left  == IF (j - 1) >= 0 THEN At(imageMap, i, j - 1) ELSE At(imageMap, i, j)
        right == IF (j + 1) < Len(imageMap[i + 1])
                 THEN At(imageMap, i, j + 1) ELSE At(imageMap, i, j)
        changeX == abs(At(imageMap, i, j) - left) + abs(At(imageMap, i, j) - right)
        up    == IF (i - 1) >= 0 THEN At(imageMap, i - 1, j) ELSE At(imageMap, i, j)
        down  == IF (i + 1) < Len(imageMap)
                 THEN At(imageMap, i + 1, j) ELSE At(imageMap, i, j)
        changeY == abs(At(imageMap, i, j) - up) + abs(At(imageMap, i, j) - down)
    IN  changeX + changeY

initEnergyMap(imageMap) ==
    [r \in 1 .. Len(imageMap) |->
        [c \in 1 .. Len(imageMap[r]) |-> energyAt(imageMap, r - 1, c - 1)]]

-----------------------------------------------------------------------------
(* initCumulativeEnergyMap *)

\* faulty variant of validSeamOriginListCE: the upper-right bound is one short
originListCENoUpperRight(above, j, size) ==
    (IF (j - 1) >= 0 THEN <<Elem(above, j - 1)>> ELSE <<>>)
        \o <<Elem(above, j)>>
        \o (IF (j + 1) < size - 1 THEN <<Elem(above, j + 1)>> ELSE <<>>)

\* validSeamOriginList of initCumulativeEnergyMap for column j, where above is
\* result[i - 1] and size is energyMap[i].size()
validSeamOriginListCE(above, j, size) ==
    (IF (j - 1) >= 0 THEN <<Elem(above, j - 1)>> ELSE <<>>)
        \o <<Elem(above, j)>>
        \o (IF (j + 1) < size THEN <<Elem(above, j + 1)>> ELSE <<>>)

\* faulty variant of cumulativeRow: the candidates are read from energyMap[i - 1]
cumulativeRowFromEnergy(energyMap, result, i) ==
    [c \in 1 .. Len(result[i + 1]) |->
        Elem(result[i + 1], c - 1)
          + LET list == validSeamOriginListCE(energyMap[i], c - 1, Len(energyMap[i + 1]))
            IN  Elem(list, min_element(list))]

\* row i of result once the inner loop has run over it
cumulativeRow(energyMap, result, i) ==
    [c \in 1 .. Len(result[i + 1]) |->
        Elem(result[i + 1], c - 1)
          + LET list == validSeamOriginListCE(result[i], c - 1, Len(energyMap[i + 1]))
            IN  Elem(list, min_element(list))]

\* the outer loop from row i on
RECURSIVE cumulativeLoop(_, _, _)
cumulativeLoop(energyMap, result, i) ==
    IF i < Len(result)
    THEN cumulativeLoop(energyMap,
                        [result EXCEPT ![i + 1] = cumulativeRow(energyMap, result, i)],
                        i + 1)
    ELSE result

initCumulativeEnergyMap(energyMap) == cumulativeLoop(energyMap, energyMap, 1)

-----------------------------------------------------------------------------
(* seamCarver *)

\* int seam_column_indices[n] = { -1 }: the first element -1, the others 0
seamArrayInit(n) == [k \in 1 .. n |-> IF k = 1 THEN -1 ELSE 0]

\* faulty variant of seam_end_index: the minimum is searched in the first row
seam_end_index_first_row(cumulativeEnergyMap) ==
    min_element(cumulativeEnergyMap[1])

\* the position of the lowest energy in the final row
seam_end_index(cumulativeEnergyMap) ==
    min_element(cumulativeEnergyMap[Len(cumulativeEnergyMap)])

\* faulty variant of swapToEnd: one swap with the last element of the row
swapOnce(row, seam_pixel_index, size) ==
    IF seam_pixel_index + 1 < size
    THEN swap(row, seam_pixel_index, size - 1)
    ELSE row

\* the while loop of lines 336-341: the seam pixel is swapped with its right
\* neighbour until it is the last element of the row
RECURSIVE swapToEnd(_, _, _)
swapToEnd(row, seam_pixel_index, size) ==
    IF seam_pixel_index + 1 < size
    THEN swapToEnd(swap(row, seam_pixel_index, seam_pixel_index + 1),
                   seam_pixel_index + 1, size)
    ELSE row

\* faulty variant of removeSeamPixel: the pop_back is missing
removeKeepsRow(row, seam_pixel_index, size) ==
    swapToEnd(row, seam_pixel_index, size)

\* lines 335-342 for one row
removeSeamPixel(row, seam_pixel_index, size) ==
    pop_back(swapToEnd(row, seam_pixel_index, size))

\* validSeamOriginList of seamCarver, where above is cumulativeEnergyMap[i - 1],
\* j is seam_column_indices[i] and size is cumulativeEnergyMap[i].size()
validSeamOriginList(above, j, size) ==
    (IF (j - 1) >= 0 THEN <<Elem(above, j - 1)>> ELSE <<>>)
        \o <<Elem(above, j)>>
        \o (IF (j + 1) < size THEN <<Elem(above, j + 1)>> ELSE <<>>)

\* lines 372-376: the lowest value of the list, then the first position of
\* that value in the whole trace-back row
seam_traceback_index(cumulativeEnergyMap, i, j) ==
    LET list == validSeamOriginList(cumulativeEnergyMap[i], j,
                                    Len(cumulativeEnergyMap[i + 1]))
        seam_traceback_value == Elem(list, min_element(list))
    IN  find(cumulativeEnergyMap[i], seam_traceback_value, 0)

\* what iteration i reads at line 335: the element of the array, whether an
\* assignment has stored it, and the sizes of the rows it is used to index
seamAccess(st, cumulativeEnergyMap, i) ==
    [row |-> i,
     index |-> Elem(st.seam, i),
     written |-> i \in st.written,
     rowSize |-> Len(st.imageMap[i + 1]),
     ceSize |-> Len(cumulativeEnergyMap[i + 1]),
     aboveSize |-> IF (i - 1) >= 0 THEN Len(cumulativeEnergyMap[i])
                   ELSE Len(cumulativeEnergyMap[i + 1])]

\* the for loop of lines 330-382 from row i down to row 0; st holds the image
\* map, the array, the elements of the array assigned so far and the reads
RECURSIVE seamLoop(_, _, _)
seamLoop(st, cumulativeEnergyMap, i) ==
    IF i >= 0
    THEN LET removed ==
                 [st.imageMap EXCEPT ![i + 1] =
                     removeSeamPixel(st.imageMap[i + 1], Elem(st.seam, i),
                                     Len(cumulativeEnergyMap[i + 1]))]
             traced ==
                 IF (i - 1) >= 0
                 THEN [st.seam EXCEPT ![i] =
                          seam_traceback_index(cumulativeEnergyMap, i, Elem(st.seam, i))]
                 ELSE st.seam
         IN  seamLoop([imageMap |-> removed, seam |-> traced,
                       written |-> IF (i - 1) >= 0 THEN st.written \cup {i - 1}
                                   ELSE st.written,
                       accesses |-> Append(st.accesses,
                                           seamAccess(st, cumulativeEnergyMap, i))],
                      cumulativeEnergyMap, i - 1)
    ELSE st

\* faulty variant of seamCarver: the seam end is stored in element 0
seamCarverSeedsFirstElement(imageMap, cumulativeEnergyMap) ==
    LET num_rows == Len(cumulativeEnergyMap)
        seeded == [seamArrayInit(num_rows) EXCEPT
                      ![1] = seam_end_index(cumulativeEnergyMap)]
    IN  seamLoop([imageMap |-> imageMap, seam |-> seeded,
                  written |-> {0}, accesses |-> <<>>],
                 cumulativeEnergyMap, num_rows - 1)

\* the image map and the array when seamCarver returns
seamCarver(imageMap, cumulativeEnergyMap) ==
    LET num_rows == Len(cumulativeEnergyMap)
        seeded == [seamArrayInit(num_rows) EXCEPT
                      ![num_rows] = seam_end_index(cumulativeEnergyMap)]
    IN  seamLoop([imageMap |-> imageMap, seam |-> seeded,
                  written |-> {num_rows - 1}, accesses |-> <<>>],
                 cumulativeEnergyMap, num_rows - 1)

-----------------------------------------------------------------------------
(* main *)

\* lines 52-57: a wrong argument count is written to cerr and main goes on
Validate ==
    /\ pc = "start"
    /\ cerr' = IF argc # 4 THEN cerr \cup {"usage"} ELSE cerr
    /\ pc' = "validated"
    /\ UNCHANGED <<argc, vSeams, hSeams, file, I, E, CE, seam_column_indices,
                   seam_accesses, cout, exitCode, carves>>

\* lines 60-63: initImageMap(argv[1]) returns the image map, which is
\* displayed, or calls exit(1)
Load ==
    /\ pc = "validated"
    /\ IF ~file.opens
       THEN /\ cerr' = cerr \cup {"open"}
            /\ exitCode' = 1 /\ pc' = "exit" /\ I' = I /\ cout' = cout
       ELSE IF file.magic # "P2"
       THEN /\ cerr' = cerr \cup {"format"}
            /\ exitCode' = 1 /\ pc' = "exit" /\ I' = I /\ cout' = cout
       ELSE IF file.columns = 0 \/ file.rows = 0
       THEN /\ cerr' = cerr \cup {"dimensions"}
            /\ exitCode' = 1 /\ pc' = "exit" /\ I' = I /\ cout' = cout
       ELSE IF pixelOutOfRange(file)
       THEN /\ cerr' = cerr \cup {"range"}
            /\ exitCode' = 1 /\ pc' = "exit" /\ I' = I /\ cout' = cout
       ELSE /\ I' = initImageMap(file)
            /\ cout' = cout \cup {"image"}
            /\ pc' = "loaded"
            /\ UNCHANGED <<cerr, exitCode>>
    /\ UNCHANGED <<argc, vSeams, hSeams, file, E, CE, seam_column_indices,
                   seam_accesses, carves>>

\* lines 66-69
EnergyStep ==
    /\ pc = "loaded"
    /\ E' = initEnergyMap(I)
    /\ cout' = cout \cup {"energy"}
    /\ pc' = "energy"
    /\ UNCHANGED <<argc, vSeams, hSeams, file, I, CE, seam_column_indices,
                   seam_accesses, cerr, exitCode, carves>>

\* lines 72-75
CumulativeStep ==
    /\ pc = "energy"
    /\ CE' = initCumulativeEnergyMap(E)
    /\ cout' = cout \cup {"cumulative"}
    /\ pc' = "cumulative"
    /\ UNCHANGED <<argc, vSeams, hSeams, file, I, E, seam_column_indices,
                   seam_accesses, cerr, exitCode, carves>>

\* lines 78-81
CarveStep ==
    /\ pc = "cumulative"
    /\ LET st == seamCarver(I, CE)
       IN  /\ I' = st.imageMap
           /\ seam_column_indices' = st.seam
           /\ seam_accesses' = st.accesses
    /\ cout' = cout \cup {"carved"}
    /\ carves' = carves + 1
    /\ pc' = "carved"
    /\ UNCHANGED <<argc, vSeams, hSeams, file, E, CE, cerr, exitCode>>

\* line 83
Return ==
    /\ pc = "carved"
    /\ exitCode' = 0
    /\ pc' = "done"
    /\ UNCHANGED <<argc, vSeams, hSeams, file, I, E, CE, seam_column_indices,
                   seam_accesses, cout, cerr, carves>>

\* the files main is run on: one that cannot be opened, one of another format,
\* and P2 files whose pixel data has rows * columns values
Shapes(rowCounts, columnCounts, cells) ==
    {d \in rowCounts \X columnCounts : d[1] * d[2] <= cells}

NoFile ==
    [opens |-> FALSE, magic |-> "P2", columns |-> 0, rows |-> 0,
     maxPixelValue |-> MaxVal, pixels |-> <<>>]

P5File ==
    [opens |-> TRUE, magic |-> "P5", columns |-> 1, rows |-> 1,
     maxPixelValue |-> MaxVal, pixels |-> <<0>>]

P2Files(shapes, values) ==
    UNION {{[opens |-> TRUE, magic |-> "P2", columns |-> d[2], rows |-> d[1],
             maxPixelValue |-> MaxVal, pixels |-> p] :
                p \in [1 .. d[1] * d[2] -> values]} :
           d \in shapes}

\* a 3 x 3 P2 file with the pixels 1 .. 9 and the usual upper bound of line 15
RampFile ==
    [opens |-> TRUE, magic |-> "P2", columns |-> 3, rows |-> 3,
     maxPixelValue |-> 255, pixels |-> <<1, 2, 3, 4, 5, 6, 7, 8, 9>>]

Init ==
    /\ pc = "start"
    /\ argc \in 2 .. MaxArgc
    /\ vSeams \in 0 .. MaxSeams
    /\ hSeams \in 0 .. MaxSeams
    /\ file \in {NoFile, P5File, RampFile}
                  \cup P2Files(Shapes(0 .. MaxFileRows, 0 .. MaxFileCols, MaxFileCells),
                                -1 .. MaxVal + 1)
    /\ I = <<>>
    /\ E = <<>>
    /\ CE = <<>>
    /\ seam_column_indices = <<>>
    /\ seam_accesses = <<>>
    /\ cout = {}
    /\ cerr = {}
    /\ exitCode = -1
    /\ carves = 0

Next ==
    \/ Validate
    \/ Load
    \/ EnergyStep
    \/ CumulativeStep
    \/ CarveStep
    \/ Return

Spec == Init /\ [][Next]_vars

-----------------------------------------------------------------------------
(* The core on every loaded grid: energy, cumulative, carve, repeated *)

\* the sequence of lines 66-78 is entered again on the grid seamCarver left,
\* as long as its rows still hold a pixel
Again ==
    /\ pc = "carved"
    /\ Len(I[1]) >= 1
    /\ pc' = "loaded"
    /\ UNCHANGED <<argc, vSeams, hSeams, file, I, E, CE, seam_column_indices,
                   seam_accesses, cout, cerr, exitCode, carves>>

\* main after a valid invocation has loaded a well-formed file
InitCore ==
    /\ pc = "loaded"
    /\ argc = 4
    /\ vSeams = 0
    /\ hSeams = 0
    /\ file \in P2Files(Shapes(1 .. MaxRows, 1 .. MaxCols, MaxCells), 0 .. MaxVal)
    /\ I = initImageMap(file)
    /\ E = <<>>
    /\ CE = <<>>
    /\ seam_column_indices = <<>>
    /\ seam_accesses = <<>>
    /\ cout = {"image"}
    /\ cerr = {}
    /\ exitCode = -1
    /\ carves = 0

NextCore ==
    \/ EnergyStep
    \/ CumulativeStep
    \/ CarveStep
    \/ Again

SpecCore == InitCore /\ [][NextCore]_vars

-----------------------------------------------------------------------------
(* initCumulativeEnergyMap on every energy grid *)

EnergyGrids ==
    UNION {[1 .. d[1] -> [1 .. d[2] -> 0 .. MaxEnergy]] :
           d \in Shapes(1 .. MaxRows, 1 .. MaxCols, MaxCells)}

InitCum ==
    /\ pc = "energy"
    /\ argc = 4
    /\ vSeams = 0
    /\ hSeams = 0
    /\ file = NoFile
    /\ I = <<>>
    /\ E \in EnergyGrids
    /\ CE = <<>>
    /\ seam_column_indices = <<>>
    /\ seam_accesses = <<>>
    /\ cout = {}
    /\ cerr = {}
    /\ exitCode = -1
    /\ carves = 0

NextCum == CumulativeStep

SpecCum == InitCum /\ [][NextCum]_vars

-----------------------------------------------------------------------------
(* Properties *)

Rows(map) == Len(map)
Cols(map) == Len(map[1])

SameShape(a, b) ==
    /\ Len(a) = Len(b)
    /\ \A r \in 1 .. Len(a) : Len(a[r]) = Len(b[r])

RECURSIVE SumSeq(_)
SumSeq(s) == IF Len(s) = 0 THEN 0 ELSE s[1] + SumSeq(Tail(s))

MinOfSet(S) == CHOOSE m \in S : \A x \in S : m <= x

Distance(a, b) == IF a >= b THEN a - b ELSE b - a

\* the connected paths over rows 0 .. n-1 of a grid of c columns: one column
\* per row, consecutive columns at most one apart
Paths(n, c) ==
    {p \in [1 .. n -> 0 .. c - 1] :
        \A r \in 1 .. n - 1 : Distance(p[r], p[r + 1]) <= 1}

PathEnergy(energy, p) ==
    SumSeq([r \in 1 .. Len(p) |-> At(energy, r - 1, p[r])])

\* the row with the element at 0-based position j deleted
DeleteAt(row, j) == SubSeq(row, 1, j) \o SubSeq(row, j + 2, Len(row))

\* C1: for a grid with at least two columns, the seam seamCarver removes has
\* one column index per row and the indices of consecutive rows differ by at
\* most 1
C1_SeamConnected ==
    (pc = "carved" /\ Cols(CE) >= 2) =>
        /\ Len(seam_column_indices) = Rows(CE)
        /\ \A r \in 1 .. Rows(CE) - 1 :
              Distance(seam_column_indices[r], seam_column_indices[r + 1]) <= 1

\* C2: after k <= C-1 rounds of energy, cumulative, carve on an R x C grid the
\* grid still has R rows and every row has length C-k
C2_ShapeAfterCarves ==
    carves <= file.columns - 1 =>
        /\ Rows(I) = file.rows
        /\ \A r \in 1 .. Rows(I) : Len(I[r]) = file.columns - carves

C2_Witness ==
    /\ pc = "carved"
    /\ file.columns >= 3
    /\ file.rows >= 2
    /\ carves = file.columns - 1
    /\ \A r \in 1 .. Rows(I) : Len(I[r]) = 1

\* C3: seamCarver leaves each row equal to the row before the call with the
\* element at that row's seam column deleted, the others in their order
C3_OnlySeamPixelRemoved ==
    [][(pc = "cumulative" /\ pc' = "carved" /\ Cols(CE) >= 2) =>
          /\ Rows(I') = Rows(I)
          /\ \A r \in 1 .. Rows(I) :
                I'[r] = DeleteAt(I[r], seam_column_indices'[r])]_vars

C3_Witness ==
    /\ pc = "carved"
    /\ Rows(I) >= 2
    /\ \E r \in 1 .. Rows(I) :
          /\ seam_column_indices[r] = 0
          /\ Len(I[r]) >= 2
          /\ I[r][1] # I[r][2]

\* C4: the energies of the removed cells sum to the minimum of the last row of
\* the cumulative grid, which is the minimum energy of a connected path from
\* the first row to the last
C4_SeamEnergyIsMinimum ==
    (pc = "carved" /\ Cols(CE) >= 2) =>
        LET removed == SumSeq([r \in 1 .. Rows(E) |->
                                  At(E, r - 1, seam_column_indices[r])])
        IN  /\ removed = MinOfSet({CE[Rows(CE)][c] : c \in 1 .. Cols(CE)})
            /\ removed = MinOfSet({PathEnergy(E, p) : p \in Paths(Rows(E), Cols(E))})

C4_Witness ==
    /\ pc = "carved"
    /\ Rows(CE) >= 2
    /\ Cols(CE) >= 3
    /\ \E r \in 1 .. Rows(CE) - 1 :
          Distance(seam_column_indices[r], seam_column_indices[r + 1]) > 1
    /\ \E p \in Paths(Rows(E), Cols(E)) :
          PathEnergy(E, p) > At(CE, Rows(CE) - 1, seam_column_indices[Rows(CE)])

\* C5: cell (i,j) of the cumulative grid is the minimum energy of a connected
\* path from row 0 to (i,j)
C5_CumulativeIsMinimumPath ==
    pc = "cumulative" =>
        \A i \in 0 .. Rows(E) - 1 : \A j \in 0 .. Cols(E) - 1 :
            At(CE, i, j) =
                MinOfSet({PathEnergy(E, p) :
                            p \in {q \in Paths(i + 1, Cols(E)) : q[i + 1] = j}})

C5_Witness ==
    /\ pc = "cumulative"
    /\ Rows(E) >= 3
    /\ Cols(E) >= 3
    /\ \E j \in 0 .. Cols(E) - 1 :
          At(CE, 2, j) < At(E, 0, j) + At(E, 1, j) + At(E, 2, j)

\* C6: the cumulative grid has the shape of the energy grid, the same row 0,
\* and below it each cell is its energy plus the least cumulative value of the
\* cells above-left, above and above-right that exist
C6_CumulativeRecurrence ==
    pc = "cumulative" =>
        /\ SameShape(CE, E)
        /\ CE[1] = E[1]
        /\ \A i \in 1 .. Rows(E) - 1 : \A j \in 0 .. Cols(E) - 1 :
              At(CE, i, j) =
                  At(E, i, j)
                    + MinOfSet({At(CE, i - 1, k) :
                                  k \in {j - 1, j, j + 1} \cap (0 .. Cols(E) - 1)})

C6_Witness ==
    /\ pc = "cumulative"
    /\ Rows(E) >= 3
    /\ Cols(E) >= 2
    /\ CE[2] # E[2]
    /\ CE[3] # E[3]

\* the neighbour of (i,j) at offset (di,dj), the pixel itself outside the grid
Neighbour(map, i, j, di, dj) ==
    IF /\ i + di \in 0 .. Rows(map) - 1
       /\ j + dj \in 0 .. Len(map[i + 1]) - 1
    THEN At(map, i + di, j + dj)
    ELSE At(map, i, j)

\* C7: initEnergyMap returns a grid of the shape of the image map whose cell
\* (i,j) is the sum of the distances of I(i,j) to its left, right, upper and
\* lower neighbours, a missing neighbour replaced by I(i,j); no entry is
\* negative and the image map is not modified
C7_EnergyFormula ==
    [][(pc = "loaded" /\ pc' = "energy") =>
          /\ I' = I
          /\ SameShape(E', I)
          /\ \A i \in 0 .. Rows(I) - 1 : \A j \in 0 .. Len(I[i + 1]) - 1 :
                /\ At(E', i, j) =
                      Distance(At(I, i, j), Neighbour(I, i, j, 0, -1))
                        + Distance(At(I, i, j), Neighbour(I, i, j, 0, 1))
                        + Distance(At(I, i, j), Neighbour(I, i, j, -1, 0))
                        + Distance(At(I, i, j), Neighbour(I, i, j, 1, 0))
                /\ At(E', i, j) >= 0]_vars

C7_Witness ==
    /\ pc = "energy"
    /\ Rows(I) >= 2
    /\ Cols(I) >= 2
    /\ \E i \in 0 .. Rows(I) - 1 : \E j \in 0 .. Cols(I) - 2 :
          At(I, i, j) < At(I, i, j + 1)

\* C8: seamCarver on a grid of at most one column reports a precondition
\* violation and removes nothing
C8_NarrowGridRejected ==
    (pc = "carved" /\ Cols(CE) <= 1) =>
        /\ "precondition" \in cerr
        /\ SameShape(I, CE)

\* C9: a valid invocation asking for V vertical and H horizontal seams on an
\* R x C raster carves V + H times and ends with a grid of shape (R-H) x (C-V)
C9_RequestedSeamsRemoved ==
    (pc = "done" /\ argc = 4) =>
        /\ carves = vSeams + hSeams
        /\ Rows(I) = file.rows - hSeams
        /\ \A r \in 1 .. Rows(I) : Len(I[r]) = file.columns - vSeams

\* C10: with an argument count other than 4 main reports the usage error and
\* terminates with a non-zero status; it does not load the raster and runs no
\* energy, cumulative or carve stage
C10_UsageErrorFatal ==
    argc # 4 =>
        /\ pc \in {"start", "exit"}
        /\ pc = "exit" => (cerr = {"usage"} /\ exitCode > 0)
        /\ I = <<>> /\ E = <<>> /\ CE = <<>> /\ carves = 0

LoaderErrors == {"open", "format", "dimensions", "range"}

\* the file has one of the defects the loader looks for
Defective(f) ==
    \/ ~f.opens
    \/ f.magic # "P2"
    \/ f.columns = 0
    \/ f.rows = 0
    \/ \E k \in DOMAIN f.pixels : f.pixels[k] \notin 0 .. f.maxPixelValue

\* C11: every error the loader detects ends the process with a non-zero
\* status before any energy, cumulative, carve or display step; a defective
\* file never gets past the loader, so every grid the core sees has its values
\* in 0 .. maxPixelValue
C11_LoaderErrorsFatal ==
    /\ (Defective(file) /\ pc \notin {"start", "validated"}) =>
          /\ pc = "exit"
          /\ cerr \cap LoaderErrors # {}
    /\ (cerr \cap LoaderErrors # {}) =>
          /\ pc = "exit"
          /\ exitCode > 0
          /\ E = <<>> /\ CE = <<>> /\ carves = 0 /\ cout = {}
    /\ pc \in {"loaded", "energy", "cumulative", "carved", "done"} =>
          \A r \in 1 .. Rows(I) : \A c \in 1 .. Len(I[r]) :
              I[r][c] \in 0 .. file.maxPixelValue

C11_Witness ==
    /\ pc = "exit"
    /\ "range" \in cerr
    /\ \E k \in DOMAIN file.pixels : file.pixels[k] < 0
    /\ \A k \in DOMAIN file.pixels : file.pixels[k] <= file.maxPixelValue

\* C12: on the grid [[1,2,3],[4,5,6],[7,8,9]] the energy grid is
\* [[4,5,4],[7,8,7],[4,5,4]], the cumulative grid [[4,5,4],[11,12,11],
\* [15,16,15]], the seam column 0 in every row and the carved grid
\* [[2,3],[5,6],[8,9]]
C12_RampExample ==
    file = RampFile =>
        /\ pc \in {"loaded", "energy", "cumulative"} =>
              I = <<<<1, 2, 3>>, <<4, 5, 6>>, <<7, 8, 9>>>>
        /\ pc \in {"energy", "cumulative", "carved", "done"} =>
              E = <<<<4, 5, 4>>, <<7, 8, 7>>, <<4, 5, 4>>>>
        /\ pc \in {"cumulative", "carved", "done"} =>
              CE = <<<<4, 5, 4>>, <<11, 12, 11>>, <<15, 16, 15>>>>
        /\ pc \in {"carved", "done"} =>
              /\ seam_column_indices = <<0, 0, 0>>
              /\ I = <<<<2, 3>>, <<5, 6>>, <<8, 9>>>>

C12_Witness ==
    /\ file = RampFile
    /\ argc = 4
    /\ pc = "done"

\* the columns of row i-1 a seam through column j of row i can come from
Candidates(j, columns) == {j - 1, j, j + 1} \cap (0 .. columns - 1)

\* C13: for every row i >= 1 with seam column j, the seam column of row i-1 is
\* the leftmost of the columns j-1, j, j+1 inside the grid whose cumulative
\* value in row i-1 is the minimum over those columns
C13_TracebackAmongCandidates ==
    pc = "carved" =>
        \A i \in 1 .. Rows(CE) - 1 :
            LET j == Elem(seam_column_indices, i)
                cands == Candidates(j, Cols(CE))
                lowest == MinOfSet({At(CE, i - 1, k) : k \in cands})
            IN  Elem(seam_column_indices, i - 1) =
                    MinOfSet({k \in cands : At(CE, i - 1, k) = lowest})

\* C14: the seam column of the last row is the smallest column at which the
\* last row of the cumulative grid has its minimum
C14_SeamEndLeftmostMinimum ==
    pc = "carved" =>
        LET last == CE[Rows(CE)]
            lowest == MinOfSet({last[c] : c \in 1 .. Len(last)})
        IN  Elem(seam_column_indices, Rows(CE) - 1) =
                MinOfSet({c \in 0 .. Len(last) - 1 : Elem(last, c) = lowest})

C14_Witness ==
    /\ pc = "carved"
    /\ Cols(CE) >= 3
    /\ LET last == CE[Rows(CE)]
       IN  /\ Elem(seam_column_indices, Rows(CE) - 1) >= 1
           /\ \E c \in 0 .. Len(last) - 1 :
                 /\ c > Elem(seam_column_indices, Rows(CE) - 1)
                 /\ Elem(last, c) = Elem(last, Elem(seam_column_indices, Rows(CE) - 1))

\* C15: seamCarver reads seam_column_indices[i] for every row i from the last
\* to the first, each after an assignment has stored it and with a value inside
\* the row of the image map and the rows of the cumulative grid it indexes;
\* the row is not empty when its last element is popped
C15_SeamIndicesWrittenAndInRange ==
    pc = "carved" =>
        /\ Len(seam_accesses) = Rows(CE)
        /\ \A k \in 1 .. Len(seam_accesses) :
              LET a == seam_accesses[k]
              IN  /\ a.row = Rows(CE) - k
                  /\ a.written
                  /\ a.index >= 0
                  /\ a.index < a.rowSize
                  /\ a.index < a.ceSize
                  /\ a.index < a.aboveSize
                  /\ a.rowSize >= 1

C15_Witness ==
    /\ pc = "carved"
    /\ Rows(CE) >= 3
    /\ Cols(CE) >= 2
    /\ \E k \in 1 .. Len(seam_accesses) :
          seam_accesses[k].row = 0 /\ seam_accesses[k].index >= 1

=============================================================================
